---------------------------- MODULE Spec2Model ----------------------------
(***************************************************************************)
(* Model of src/mcp_server.py: the in-memory registry `conversations` and  *)
(* the three tools schedule_conversation, get_conversation_status and      *)
(* cancel_conversation.  In Spec each tool call is one atomic step (the    *)
(* tools are plain synchronous functions); SpecConc runs                   *)
(* schedule_conversation on two threads, split where the source reads the  *)
(* registry size and where it writes the entry.  The wall clock read by    *)
(* datetime.utcnow() is the variable `now`, counted in seconds after       *)
(* 2026-01-01T00:00:00.                                                    *)
(***************************************************************************)
EXTENDS Integers, Sequences, FiniteSets, TLC

(* ------------------------------ bounds -------------------------------- *)

\* the registry is grown up to this many tasks
MaxTasks == 2
\* the clock runs from 0 up to this many seconds
MaxNow == 1

(* --------------------------- Python values ---------------------------- *)

\* Python's None (no string of the model's inputs is spelled like this)
None == "<None>"
\* an optional argument left out of the call
NoArg == "<NoArg>"
\* no exception was raised
NoException == "<no exception>"

\* `not x` for x a str or None
Falsy(x) == x = None \/ x = ""

Digit(d) ==
    CASE d = 0 -> "0" [] d = 1 -> "1" [] d = 2 -> "2" [] d = 3 -> "3"
      [] d = 4 -> "4" [] d = 5 -> "5" [] d = 6 -> "6" [] d = 7 -> "7"
      [] d = 8 -> "8" [] d = 9 -> "9"

RECURSIVE str(_)
\* str(n) of a non-negative int: its decimal digits
str(n) == IF n < 10 THEN Digit(n) ELSE str(n \div 10) \o Digit(n % 10)

\* a two-digit field of an ISO-8601 string
Two(n) == Digit(n \div 10) \o Digit(n % 10)

(* ----------------------------- datetime ------------------------------- *)

\* wall-clock readings a scheduled_time may name: one more than the clock
\* reaches, so that a future time always exists
Walls == 0 .. (MaxNow + 1)
\* utc offsets (seconds) of the timezone-aware inputs: "+00:00"
Offsets == {0}

\* a datetime: wall-clock seconds after 2026-01-01T00:00:00, and its tzinfo
Naive(w) == [wall |-> w, aware |-> FALSE, utcoffset |-> 0]
Aware(w, o) == [wall |-> w, aware |-> TRUE, utcoffset |-> o]
Datetimes == {Naive(w) : w \in Walls} \cup {Aware(w, o) : w \in Walls, o \in Offsets}

\* the instant (UTC seconds) a datetime denotes
Instant(d) == d.wall - d.utcoffset

\* datetime.isoformat(): YYYY-MM-DDTHH:MM:SS[+HH:MM[:SS]]
isoformat(d) ==
    "2026-01-01T" \o Two(d.wall \div 3600) \o ":" \o Two((d.wall \div 60) % 60)
        \o ":" \o Two(d.wall % 60)
        \o (IF ~d.aware THEN ""
            ELSE "+" \o Two(d.utcoffset \div 3600) \o ":" \o Two((d.utcoffset \div 60) % 60)
                     \o (IF d.utcoffset % 60 = 0 THEN "" ELSE ":" \o Two(d.utcoffset % 60)))

\* the ISO-8601 text of every datetime of the model
IsoText == [d \in Datetimes |-> isoformat(d)]

\* datetime.fromisoformat(s): the datetime whose ISO-8601 text is s, or
\* ValueError when s is the text of none
fromisoformat(s) ==
    IF \E d \in Datetimes : IsoText[d] = s
    THEN [raises |-> NoException, value |-> CHOOSE d \in Datetimes : IsoText[d] = s]
    ELSE [raises |-> "ValueError", value |-> Naive(0)]

\* datetime.utcnow(): a naive datetime
utcnow(clock) == Naive(clock)

\* a <= b on datetimes: TypeError when exactly one of them is aware
LessEq(a, b) ==
    IF a.aware # b.aware
    THEN [raises |-> "TypeError", value |-> FALSE]
    ELSE [raises |-> NoException, value |-> Instant(a) <= Instant(b)]

(* ------------------------------ inputs -------------------------------- *)

\* None and "" are the two falsy values of a required argument; between
\* them the three required arguments take both
Texts == {None, "hello"}
Endpoints == {"", "http://localhost/hook"}
\* method and additional_info: both left out, or both given
OptionalArgs == {<<NoArg, NoArg>>, <<"GET", "note">>}
TimeStrings == {None, "", "tomorrow"} \cup {IsoText[d] : d \in Datetimes}
\* ids asked of get_conversation_status and cancel_conversation
Ids == {str(n) : n \in 1 .. (MaxTasks + 1)} \cup {"", "999", "01"}

(* ------------------------------ state --------------------------------- *)

VARIABLES
    conversations,  \* the registry: id -> task
    now,            \* the clock datetime.utcnow() reads
    last,           \* the last tool call: its arguments and its outcome
    history,        \* the ids successful schedule calls returned, in order
    cancelled,      \* the ids cancel_conversation has succeeded on
    threads,        \* concurrent callers of schedule_conversation: their locals
    overlapped      \* a caller computed its id while another had yet to insert

vars == <<conversations, now, last, history, cancelled, threads, overlapped>>

\* the state of the concurrent callers, which one-at-a-time calls leave alone
conc == <<threads, overlapped>>

\* the callers of the concurrent specification
Threads == {"t1", "t2"}

MsgRequired == "conversation_text, scheduled_time, and endpoint are required"
MsgFuture == "Scheduled time must be in the future"
MsgFormat == "Invalid scheduled_time format. Use ISO 8601 format."
MsgNotFound == "Conversation ID not found"

NoCall ==
    [op |-> "none", text |-> None, time |-> None, endpoint |-> None,
     method |-> NoArg, info |-> NoArg, id |-> None,
     raises |-> NoException, msg |-> "", ret |-> None, was |-> None]

\* a caller that is not inside schedule_conversation
Idle == [pc |-> "idle", id |-> None, task |-> <<>>, call |-> NoCall]

Init ==
    /\ conversations = <<>>
    /\ now = 0
    /\ last = NoCall
    /\ history = <<>>
    /\ cancelled = {}
    /\ threads = [t \in Threads |-> Idle]
    /\ overlapped = FALSE

\* variant: the registry is replaced by the one new entry
PutAlone(f, k, v) == [x \in {k} |-> v]

\* the function f extended or overwritten at key k
Put(f, k, v) == [x \in DOMAIN f \cup {k} |-> IF x = k THEN v ELSE f[x]]

\* the body of the try block (lines 17-19): parse, then compare with utcnow()
TryBody(time, clock) ==
    LET p == fromisoformat(time)
        c == LessEq(p.value, utcnow(clock))
    IN  IF p.raises # NoException
        THEN [raises |-> p.raises, msg |-> "Invalid isoformat string", value |-> p.value]
        ELSE IF c.raises # NoException
        THEN [raises |-> c.raises, value |-> p.value,
              msg |-> "can't compare offset-naive and offset-aware datetimes"]
        ELSE IF c.value
        THEN [raises |-> "ValueError", msg |-> MsgFuture, value |-> p.value]
        ELSE [raises |-> NoException, msg |-> "", value |-> p.value]

\* variant: a string that does not parse is taken as the latest time
\* instead of being rejected
ParseFutureLenient(time, clock) ==
    LET b == TryBody(time, clock) IN
    IF fromisoformat(time).raises = "ValueError"
    THEN [raises |-> NoException, msg |-> "", value |-> Naive(MaxNow + 1)]
    ELSE IF b.raises = "ValueError" THEN [b EXCEPT !.msg = MsgFormat] ELSE b

\* the try statement (lines 16-21): a ValueError raised in the body is
\* replaced by the format error; any other exception passes through
ParseFuture(time, clock) ==
    LET b == TryBody(time, clock) IN
    IF b.raises = "ValueError" THEN [b EXCEPT !.msg = MsgFormat] ELSE b

\* variant: `and` in place of `or`
RequiredAll(text, time, endpoint) == Falsy(text) /\ Falsy(time) /\ Falsy(endpoint)

\* line 13: a required argument is None or empty
Required(text, time, endpoint) == Falsy(text) \/ Falsy(time) \/ Falsy(endpoint)

\* variant: the registry size itself, without the + 1
NewIdFromZero(reg) == str(Cardinality(DOMAIN reg))

\* line 23: the decimal string of the registry size plus one
NewId(reg) == str(Cardinality(DOMAIN reg) + 1)

\* variant: the default is stored whatever the caller gave
DefaultedAlways(arg, default) == default

\* a parameter's default value (line 11)
Defaulted(arg, default) == IF arg = NoArg THEN default ELSE arg

NewTask(text, dt, endpoint, method, info) ==
    [text |-> text, time |-> dt, endpoint |-> endpoint,
     method |-> Defaulted(method, "POST"), info |-> Defaulted(info, None),
     status |-> "scheduled"]

\* variant: the task is stored before the time is validated
schedule_conversation_store_first(text, time, endpoint, method, info) ==
    LET call == [NoCall EXCEPT !.op = "schedule", !.text = text, !.time = time,
                               !.endpoint = endpoint, !.method = method, !.info = info]
    IN
    /\ Cardinality(DOMAIN conversations) < MaxTasks
    /\ IF Required(text, time, endpoint)
       THEN /\ last' = [call EXCEPT !.raises = "ValueError", !.msg = MsgRequired]
            /\ UNCHANGED <<conversations, history>>
       ELSE LET r == ParseFuture(time, now)
                id == NewId(conversations)
            IN
            /\ conversations' = Put(conversations, id, NewTask(text, r.value, endpoint, method, info))
            /\ IF r.raises # NoException
               THEN /\ last' = [call EXCEPT !.raises = r.raises, !.msg = r.msg]
                    /\ UNCHANGED history
               ELSE /\ last' = [call EXCEPT !.ret = id]
                    /\ history' = Append(history, id)
    /\ UNCHANGED <<now, cancelled>>

\* lines 11-32; no call is made once the registry holds MaxTasks tasks
schedule_conversation(text, time, endpoint, method, info) ==
    LET call == [NoCall EXCEPT !.op = "schedule", !.text = text, !.time = time,
                               !.endpoint = endpoint, !.method = method, !.info = info]
    IN
    /\ Cardinality(DOMAIN conversations) < MaxTasks
    /\ IF Required(text, time, endpoint)
       THEN /\ last' = [call EXCEPT !.raises = "ValueError", !.msg = MsgRequired]
            /\ UNCHANGED <<conversations, history>>
       ELSE LET r == ParseFuture(time, now) IN
            IF r.raises # NoException
            THEN /\ last' = [call EXCEPT !.raises = r.raises, !.msg = r.msg]
                 /\ UNCHANGED <<conversations, history>>
            ELSE LET id == NewId(conversations) IN
                 /\ conversations' = Put(conversations, id, NewTask(text, r.value, endpoint, method, info))
                 /\ last' = [call EXCEPT !.ret = id]
                 /\ history' = Append(history, id)
    /\ UNCHANGED <<now, cancelled>>

\* variant: an absent id is answered like dict.get, without an error
get_conversation_status_lenient(id) ==
    LET call == [NoCall EXCEPT !.op = "get", !.id = id] IN
    /\ IF id \notin DOMAIN conversations
       THEN last' = [call EXCEPT !.ret = None]
       ELSE last' = [call EXCEPT !.ret = conversations[id].status]
    /\ UNCHANGED <<conversations, now, history, cancelled>>

\* variant: a task whose time has passed is reported as due
get_conversation_status_due(id) ==
    LET call == [NoCall EXCEPT !.op = "get", !.id = id] IN
    /\ IF id \notin DOMAIN conversations
       THEN last' = [call EXCEPT !.raises = "ValueError", !.msg = MsgNotFound]
       ELSE last' = [call EXCEPT !.ret = IF Instant(conversations[id].time) <= now
                                         THEN "due" ELSE conversations[id].status]
    /\ UNCHANGED <<conversations, now, history, cancelled>>

\* lines 35-39
get_conversation_status(id) ==
    LET call == [NoCall EXCEPT !.op = "get", !.id = id] IN
    /\ IF id \notin DOMAIN conversations
       THEN last' = [call EXCEPT !.raises = "ValueError", !.msg = MsgNotFound]
       ELSE last' = [call EXCEPT !.ret = conversations[id].status]
    /\ UNCHANGED <<conversations, now, history, cancelled>>

\* variant: cancelling removes the entry from the registry
cancel_conversation_remove(id) ==
    LET call == [NoCall EXCEPT !.op = "cancel", !.id = id] IN
    /\ IF id \notin DOMAIN conversations
       THEN /\ last' = [call EXCEPT !.raises = "ValueError", !.msg = MsgNotFound]
            /\ UNCHANGED <<conversations, cancelled>>
       ELSE /\ conversations' = [k \in DOMAIN conversations \ {id} |-> conversations[k]]
            /\ last' = [call EXCEPT !.ret = TRUE, !.was = conversations[id].status]
            /\ cancelled' = cancelled \cup {id}
    /\ UNCHANGED <<now, history>>

\* variant: the status is written only when the task is not due yet
cancel_conversation_if_pending(id) ==
    LET call == [NoCall EXCEPT !.op = "cancel", !.id = id] IN
    /\ IF id \notin DOMAIN conversations
       THEN /\ last' = [call EXCEPT !.raises = "ValueError", !.msg = MsgNotFound]
            /\ UNCHANGED <<conversations, cancelled>>
       ELSE /\ conversations' =
                   IF Instant(conversations[id].time) > now
                   THEN [conversations EXCEPT ![id].status = "cancelled"]
                   ELSE conversations
            /\ last' = [call EXCEPT !.ret = TRUE, !.was = conversations[id].status]
            /\ cancelled' = cancelled \cup {id}
    /\ UNCHANGED <<now, history>>

\* variant: cancelling a task that is already cancelled is an error
cancel_conversation_once(id) ==
    LET call == [NoCall EXCEPT !.op = "cancel", !.id = id] IN
    /\ IF id \notin DOMAIN conversations
       THEN /\ last' = [call EXCEPT !.raises = "ValueError", !.msg = MsgNotFound]
            /\ UNCHANGED <<conversations, cancelled>>
       ELSE IF conversations[id].status = "cancelled"
       THEN /\ last' = [call EXCEPT !.raises = "ValueError", !.msg = "already cancelled",
                                    !.was = conversations[id].status]
            /\ UNCHANGED <<conversations, cancelled>>
       ELSE /\ conversations' = [conversations EXCEPT ![id].status = "cancelled"]
            /\ last' = [call EXCEPT !.ret = TRUE, !.was = conversations[id].status]
            /\ cancelled' = cancelled \cup {id}
    /\ UNCHANGED <<now, history>>

\* variant: cancelling a cancelled task schedules it again
cancel_conversation_toggle(id) ==
    LET call == [NoCall EXCEPT !.op = "cancel", !.id = id] IN
    /\ IF id \notin DOMAIN conversations
       THEN /\ last' = [call EXCEPT !.raises = "ValueError", !.msg = MsgNotFound]
            /\ UNCHANGED <<conversations, cancelled>>
       ELSE /\ conversations' =
                   [conversations EXCEPT ![id].status =
                        IF @ = "cancelled" THEN "scheduled" ELSE "cancelled"]
            /\ last' = [call EXCEPT !.ret = TRUE, !.was = conversations[id].status]
            /\ cancelled' = cancelled \cup {id}
    /\ UNCHANGED <<now, history>>

\* variant: every task of the registry is cancelled
cancel_conversation_all(id) ==
    LET call == [NoCall EXCEPT !.op = "cancel", !.id = id] IN
    /\ IF id \notin DOMAIN conversations
       THEN /\ last' = [call EXCEPT !.raises = "ValueError", !.msg = MsgNotFound]
            /\ UNCHANGED <<conversations, cancelled>>
       ELSE /\ conversations' =
                   [k \in DOMAIN conversations |-> [conversations[k] EXCEPT !.status = "cancelled"]]
            /\ last' = [call EXCEPT !.ret = TRUE, !.was = conversations[id].status]
            /\ cancelled' = cancelled \cup {id}
    /\ UNCHANGED <<now, history>>

\* lines 42-47
cancel_conversation(id) ==
    LET call == [NoCall EXCEPT !.op = "cancel", !.id = id] IN
    /\ IF id \notin DOMAIN conversations
       THEN /\ last' = [call EXCEPT !.raises = "ValueError", !.msg = MsgNotFound]
            /\ UNCHANGED <<conversations, cancelled>>
       ELSE /\ conversations' = [conversations EXCEPT ![id].status = "cancelled"]
            /\ last' = [call EXCEPT !.ret = TRUE, !.was = conversations[id].status]
            /\ cancelled' = cancelled \cup {id}
    /\ UNCHANGED <<now, history>>

\* variant: a dispatcher marks the tasks that have come due as delivered
TickDelivers ==
    /\ now < MaxNow
    /\ now' = now + 1
    /\ conversations' =
          [k \in DOMAIN conversations |->
              IF conversations[k].status = "scheduled" /\ Instant(conversations[k].time) <= now'
              THEN [conversations[k] EXCEPT !.status = "delivered"]
              ELSE conversations[k]]
    /\ UNCHANGED <<last, history, cancelled, conc>>

\* time passes between calls; nothing in the source acts on it
Tick ==
    /\ now < MaxNow
    /\ now' = now + 1
    /\ UNCHANGED <<conversations, last, history, cancelled, conc>>

Schedule ==
    \E text \in Texts, time \in TimeStrings, endpoint \in Endpoints, opt \in OptionalArgs :
        schedule_conversation(text, time, endpoint, opt[1], opt[2]) /\ UNCHANGED conc

GetStatus == \E id \in Ids : get_conversation_status(id) /\ UNCHANGED conc

Cancel == \E id \in Ids : cancel_conversation(id) /\ UNCHANGED conc

Next == Schedule \/ GetStatus \/ Cancel \/ Tick

Spec == Init /\ [][Next]_vars

(* ------------------ schedule_conversation, interleaved ----------------- *)

\* The source takes no lock: a caller running schedule_conversation on
\* another thread can be preempted between line 23, where it reads the
\* size of the registry, and line 24, where it writes the entry.

\* the callers between line 23 and line 24
InFlight == {t \in Threads : threads[t].pc = "insert"}

\* lines 13-23: validate, then compute the id from the registry size
schedule_begin(t, text, time, endpoint, method, info) ==
    LET call == [NoCall EXCEPT !.op = "schedule", !.text = text, !.time = time,
                               !.endpoint = endpoint, !.method = method, !.info = info]
    IN
    /\ threads[t].pc = "idle"
    /\ Len(history) + Cardinality(InFlight) < MaxTasks
    /\ IF Required(text, time, endpoint)
       THEN /\ last' = [call EXCEPT !.raises = "ValueError", !.msg = MsgRequired]
            /\ UNCHANGED <<threads, overlapped>>
       ELSE LET r == ParseFuture(time, now) IN
            IF r.raises # NoException
            THEN /\ last' = [call EXCEPT !.raises = r.raises, !.msg = r.msg]
                 /\ UNCHANGED <<threads, overlapped>>
            ELSE /\ threads' = [threads EXCEPT ![t] =
                        [pc |-> "insert", id |-> NewId(conversations),
                         task |-> NewTask(text, r.value, endpoint, method, info),
                         call |-> call]]
                 /\ overlapped' = (overlapped \/ InFlight # {})
                 /\ UNCHANGED last
    /\ UNCHANGED <<conversations, now, history, cancelled>>

\* variant: the id is computed in the statement that inserts the task
schedule_insert_fresh(t) ==
    /\ threads[t].pc = "insert"
    /\ conversations' = Put(conversations, NewId(conversations), threads[t].task)
    /\ last' = [threads[t].call EXCEPT !.ret = NewId(conversations)]
    /\ history' = Append(history, NewId(conversations))
    /\ threads' = [threads EXCEPT ![t] = Idle]
    /\ UNCHANGED <<now, cancelled, overlapped>>

\* lines 24-32: write the entry under the id computed before, return the id
schedule_insert(t) ==
    /\ threads[t].pc = "insert"
    /\ conversations' = Put(conversations, threads[t].id, threads[t].task)
    /\ last' = [threads[t].call EXCEPT !.ret = threads[t].id]
    /\ history' = Append(history, threads[t].id)
    /\ threads' = [threads EXCEPT ![t] = Idle]
    /\ UNCHANGED <<now, cancelled, overlapped>>

ScheduleBegin ==
    \E t \in Threads, text \in Texts, time \in TimeStrings, endpoint \in Endpoints,
       opt \in OptionalArgs :
        schedule_begin(t, text, time, endpoint, opt[1], opt[2])

ScheduleInsert == \E t \in Threads : schedule_insert(t)

NextConc == ScheduleBegin \/ ScheduleInsert

SpecConc == Init /\ [][NextConc]_vars

(* ------------------------- vocabulary of the claims -------------------- *)

\* the two error kinds of the interface; both are ValueError in the source
InvalidArgument(call) ==
    call.op = "schedule" /\ call.raises = "ValueError" /\ call.msg \in {MsgRequired, MsgFormat}
NotFound(call) ==
    call.op \in {"get", "cancel"} /\ call.raises = "ValueError" /\ call.msg = MsgNotFound

\* the call returned value v
Returned(call, v) == call.raises = NoException /\ call.ret = v

\* the ids successful schedule calls have returned so far
ReturnedIds == {history[i] : i \in 1 .. Len(history)}

\* s is the ISO-8601 text of a datetime
Parseable(s) == \E d \in Datetimes : IsoText[d] = s
Parsed(s) == CHOOSE d \in Datetimes : IsoText[d] = s

\* this step is a call of the tool op (Tick alone moves the clock, and
\* every call records itself in last)
CallStep(op) == now' = now /\ last'.op = op

TypeOK ==
    /\ now \in 0 .. MaxNow
    /\ Cardinality(DOMAIN conversations) <= MaxTasks

(* ------------------------------- C1 ----------------------------------- *)

\* C1: a schedule call with non-empty text, non-empty endpoint and a
\* parseable scheduled_time strictly in the future succeeds and inserts a
\* task with status "scheduled"; a get_conversation_status on a returned id
\* that has not been cancelled returns "scheduled".
C1_ScheduleValidSucceeds ==
    [][/\ (/\ CallStep("schedule")
           /\ ~Falsy(last'.text) /\ ~Falsy(last'.endpoint)
           /\ Parseable(last'.time) /\ Instant(Parsed(last'.time)) > now)
          => /\ last'.raises = NoException
             /\ last'.ret \in DOMAIN conversations'
             /\ conversations'[last'.ret].status = "scheduled"
       /\ (CallStep("get") /\ last'.id \in ReturnedIds \ cancelled)
          => Returned(last', "scheduled")]_vars

(* ------------------------------- C2 ----------------------------------- *)

\* C2: ids are never reused: the id a successful schedule returns was not a
\* key of the registry before the call and was returned by no earlier
\* schedule, and the call overwrites no existing task.
C2_IdsNeverReused ==
    [][(CallStep("schedule") /\ last'.raises = NoException)
        => /\ last'.ret \notin DOMAIN conversations
           /\ last'.ret \notin ReturnedIds
           /\ \A k \in DOMAIN conversations :
                k \in DOMAIN conversations' /\ conversations'[k] = conversations[k]
           /\ \A i, j \in 1 .. Len(history') :
                history'[i] = history'[j] => i = j]_vars

\* C2 witness: a second schedule has succeeded after a cancel and a failed call
C2_Witness ==
    /\ Len(history) = 2 /\ cancelled # {}
    /\ last.op = "schedule" /\ last.raises = NoException
    /\ history[1] # history[2]

(* ------------------------------- C3 ----------------------------------- *)

\* C3: the k-th successful schedule returns the decimal string of k, and the
\* registry's key set is exactly {"1", ..., "n"}, n the number of successful
\* schedules so far (so no cancel removes an entry).
C3_SequentialIds ==
    /\ \A k \in 1 .. Len(history) : history[k] = ToString(k)
    /\ DOMAIN conversations = {ToString(k) : k \in 1 .. Len(history)}
    /\ (last.op = "schedule" /\ last.raises = NoException)
       => last.ret = ToString(Len(history))

\* C3 witness: two tasks scheduled, the first one cancelled before the second
C3_Witness ==
    /\ DOMAIN conversations = {"1", "2"}
    /\ "1" \in cancelled
    /\ last.op = "schedule" /\ last.raises = NoException /\ last.ret = "2"

(* ------------------------------- C4 ----------------------------------- *)

\* C4: cancel on an id present in the registry returns true and sets the
\* status to "cancelled" whatever it was; every later get_conversation_status
\* on that id returns "cancelled".
C4_CancelSetsCancelled ==
    /\ (last.op = "cancel" /\ last.id \in DOMAIN conversations)
       => Returned(last, TRUE) /\ conversations[last.id].status = "cancelled"
    /\ \A id \in cancelled :
         id \in DOMAIN conversations /\ conversations[id].status = "cancelled"
    /\ (last.op = "get" /\ last.id \in cancelled) => Returned(last, "cancelled")

\* C4 witness: a status query after a cancel, the clock past the task's time
C4_Witness ==
    /\ last.op = "get" /\ last.id \in cancelled /\ Returned(last, "cancelled")
    /\ Instant(conversations[last.id].time) <= now

(* ------------------------------- C5 ----------------------------------- *)

\* C5: cancel is idempotent: a cancel of an id that was cancelled before
\* succeeds again and leaves the registry as the first cancel left it.
C5_CancelIdempotent ==
    [][(CallStep("cancel") /\ last'.id \in cancelled)
        => Returned(last', TRUE) /\ conversations' = conversations]_vars

\* C5 witness: a cancel has succeeded on an already cancelled task
C5_Witness ==
    /\ last.op = "cancel" /\ Returned(last, TRUE) /\ last.was = "cancelled"
    /\ conversations[last.id].status = "cancelled"

(* ------------------------------- C6 ----------------------------------- *)

\* C6: get_conversation_status and cancel_conversation fail with NotFound
\* exactly when the id is not a key of the registry, and never for an id an
\* earlier schedule returned, cancelled or not.
C6_NotFoundIffAbsent ==
    last.op \in {"get", "cancel"}
    => /\ NotFound(last) <=> last.id \notin DOMAIN conversations
       /\ last.raises # NoException => NotFound(last)
       /\ last.id \in ReturnedIds => last.raises = NoException

\* C6 witness: NotFound for the id one past the tasks scheduled so far
C6_Witness ==
    /\ Len(history) = 1
    /\ last.op \in {"get", "cancel"} /\ last.id = "2" /\ NotFound(last)

(* ------------------------------- C7 ----------------------------------- *)

\* C7: schedule fails with InvalidArgument whenever text, scheduled_time or
\* endpoint is empty or absent, whatever the other arguments, and stores
\* no task.
C7_RequiredArguments ==
    [][(CallStep("schedule")
        /\ (Falsy(last'.text) \/ Falsy(last'.time) \/ Falsy(last'.endpoint)))
        => InvalidArgument(last') /\ conversations' = conversations]_vars

\* C7 witness: an empty endpoint rejected although the time is a valid future one
C7_Witness ==
    /\ last.op = "schedule" /\ last.endpoint = "" /\ last.text = "hello"
    /\ Parseable(last.time) /\ ~Parsed(last.time).aware
    /\ Instant(Parsed(last.time)) > now
    /\ InvalidArgument(last)

(* ------------------------------- C8 ----------------------------------- *)

\* C8: a schedule call with a parseable scheduled_time t stores a task only
\* if t is strictly later than the current time; when t is equal to or
\* earlier than it the call fails with InvalidArgument and stores nothing;
\* so a task's scheduled_time is strictly later than its creation instant.
C8_StrictlyFuture ==
    [][(CallStep("schedule") /\ Parseable(last'.time))
        => /\ conversations' # conversations
              => /\ Instant(Parsed(last'.time)) > now
                 /\ last'.ret \in DOMAIN conversations'
                 /\ Instant(conversations'[last'.ret].time) > now
           /\ Instant(Parsed(last'.time)) <= now
              => InvalidArgument(last') /\ conversations' = conversations]_vars

(* ------------------------------- C9 ----------------------------------- *)

\* C9: every failure is one of two error kinds: schedule fails only with
\* InvalidArgument, get_conversation_status and cancel_conversation only
\* with NotFound; a timezone-carrying scheduled_time either succeeds or
\* fails with InvalidArgument.
C9_TwoErrorKinds ==
    last.raises # NoException
    => \/ InvalidArgument(last)
       \/ NotFound(last)

(* ------------------------------- C10 ---------------------------------- *)

\* C10: a schedule call with a non-empty scheduled_time that is not a
\* parseable ISO-8601 string fails with InvalidArgument and stores nothing,
\* whatever the other arguments.
C10_UnparseableTime ==
    [][(CallStep("schedule") /\ ~Falsy(last'.time) /\ ~Parseable(last'.time))
        => InvalidArgument(last') /\ conversations' = conversations]_vars

\* C10 witness: "tomorrow" rejected with the format error, the other
\* arguments being valid
C10_Witness ==
    /\ last.op = "schedule" /\ last.time = "tomorrow"
    /\ ~Falsy(last.text) /\ ~Falsy(last.endpoint)
    /\ InvalidArgument(last) /\ last.msg = MsgFormat

(* ------------------------------- C11 ---------------------------------- *)

\* C11: every task of the registry has status "scheduled" or "cancelled",
\* also once the current time has passed its scheduled_time.
C11_StatusValues ==
    \A k \in DOMAIN conversations : conversations[k].status \in {"scheduled", "cancelled"}

\* C11 witness: one task overdue and still scheduled, another one cancelled
C11_Witness ==
    /\ \E k \in DOMAIN conversations :
         conversations[k].status = "scheduled" /\ Instant(conversations[k].time) <= now
    /\ \E k \in DOMAIN conversations : conversations[k].status = "cancelled"

(* ------------------------------- C12 ---------------------------------- *)

\* C12: a task's status changes only in a successful cancel of its own id,
\* and only from "scheduled" to "cancelled"; no other call, failed call or
\* passage of time changes it, and a task never cancelled is "scheduled".
C12_StatusChangesOnlyByCancel ==
    [][\A k \in DOMAIN conversations :
         /\ k \in DOMAIN conversations'
         /\ conversations'[k].status # conversations[k].status
            => /\ CallStep("cancel") /\ last'.id = k /\ Returned(last', TRUE)
               /\ conversations[k].status = "scheduled"
               /\ conversations'[k].status = "cancelled"
         /\ k \notin cancelled' => conversations'[k].status = "scheduled"]_vars

\* C12 witness: the clock has moved, task "1" was cancelled (twice) and
\* task "2", never cancelled, is still scheduled
C12_Witness ==
    /\ now > 0
    /\ DOMAIN conversations = {"1", "2"} /\ cancelled = {"1"}
    /\ conversations["1"].status = "cancelled"
    /\ conversations["2"].status = "scheduled"
    /\ last.op = "cancel" /\ last.id = "1" /\ last.was = "cancelled"

(* ------------------------------- C13 ---------------------------------- *)

\* C13: a successful schedule adds exactly one entry to the registry and
\* leaves every existing task, its status included, unchanged.
C13_ScheduleAddsOne ==
    [][(CallStep("schedule") /\ last'.raises = NoException)
        => /\ Cardinality(DOMAIN conversations') = Cardinality(DOMAIN conversations) + 1
           /\ DOMAIN conversations' = DOMAIN conversations \cup {last'.ret}
           /\ \A k \in DOMAIN conversations : conversations'[k] = conversations[k]
           /\ cancelled' = cancelled]_vars

\* C13 witness: a second task added next to a cancelled first one
C13_Witness ==
    /\ last.op = "schedule" /\ last.raises = NoException /\ last.method = "GET"
    /\ Cardinality(DOMAIN conversations) = 2
    /\ \E k \in DOMAIN conversations \ {last.ret} : conversations[k].status = "cancelled"

(* ------------------------------- C14 ---------------------------------- *)

\* C14: a successful cancel changes nothing but the status field of the
\* task with that id: the key set, that task's other fields and every
\* other task are unchanged.
C14_CancelFrame ==
    [][(CallStep("cancel") /\ last'.raises = NoException)
        => /\ DOMAIN conversations' = DOMAIN conversations
           /\ last'.id \in DOMAIN conversations
           /\ \A k \in DOMAIN conversations :
                IF k = last'.id
                THEN conversations'[k] =
                        [conversations[k] EXCEPT !.status = conversations'[k].status]
                ELSE conversations'[k] = conversations[k]]_vars

\* C14 witness: one of two scheduled tasks cancelled, the other one still scheduled
C14_Witness ==
    /\ last.op = "cancel" /\ Returned(last, TRUE) /\ last.was = "scheduled"
    /\ Cardinality(DOMAIN conversations) = 2
    /\ \E k \in DOMAIN conversations \ {last.id} : conversations[k].status = "scheduled"

(* ------------------------------- C15 ---------------------------------- *)

\* C15: get_conversation_status never changes the registry, whether it
\* returns or fails, and what it returns is the status stored for the id.
C15_GetStatusReadOnly ==
    [][CallStep("get")
        => /\ conversations' = conversations
           /\ last'.raises = NoException
              => /\ last'.id \in DOMAIN conversations
                 /\ last'.ret = conversations[last'.id].status]_vars

\* C15 witness: the status of an overdue task read after a cancel
C15_Witness ==
    /\ last.op = "get" /\ last.raises = NoException
    /\ last.ret = conversations[last.id].status
    /\ Instant(conversations[last.id].time) <= now
    /\ cancelled # {}

(* ------------------------------- C16 ---------------------------------- *)

\* C16: a call that fails leaves the registry exactly as it was: no entry
\* added, no status changed, and no id consumed (the next successful
\* schedule returns the id it would have returned without the failed call).
C16_FailureChangesNothing ==
    [][(now' = now /\ last'.raises # NoException)
        => /\ conversations' = conversations
           /\ history' = history
           /\ cancelled' = cancelled
           /\ NewId(conversations') = NewId(conversations)]_vars

\* C16 witness: a schedule call with a text has failed at a registry that
\* holds one cancelled task
C16_Witness ==
    /\ last.op = "schedule" /\ last.raises # NoException /\ ~Falsy(last.text)
    /\ Cardinality(DOMAIN conversations) = 1
    /\ cancelled # {}

(* ------------------------------- C17 ---------------------------------- *)

\* some id occurs twice among the ids returned
Duplicate(h) == \E i, j \in 1 .. Len(h) : i # j /\ h[i] = h[j]

\* C17: without mutual exclusion, two schedule calls that both compute
\* their id before either inserts hold the same id; the later insert
\* overwrites the earlier task and returns the id again, so the registry has
\* fewer entries than schedules succeeded.  Returned ids are all distinct
\* only if no caller computed its id while another had yet to insert.
C17_InterleavedScheduleCollides ==
    [][/\ \A t, u \in Threads :
            (/\ threads[t].pc = "idle" /\ threads'[t].pc = "insert"
             /\ threads[u].pc = "insert" /\ threads[u].id \notin DOMAIN conversations)
            => threads'[t].id = threads[u].id
       /\ \A t \in Threads :
            (threads[t].pc = "insert" /\ threads'[t].pc = "idle")
            => /\ conversations'[threads[t].id] = threads[t].task
               /\ Returned(last', threads[t].id)
               /\ threads[t].id \in DOMAIN conversations
                  => /\ DOMAIN conversations' = DOMAIN conversations
                     /\ Duplicate(history')
                     /\ Cardinality(DOMAIN conversations') < Len(history')
       /\ Duplicate(history') => overlapped'
       /\ (overlapped' /\ InFlight' = {}) => Duplicate(history')]_vars

\* C17 witness: both callers returned "1" and one entry is left, holding the
\* task of the later insert and not the one of the earlier
C17_Witness ==
    /\ history = <<"1", "1">>
    /\ DOMAIN conversations = {"1"}
    /\ InFlight = {}
    /\ conversations["1"].method = "GET" /\ last.method = "GET"

(* ------------------------------- C18 ---------------------------------- *)

\* the task a successful schedule call must have stored
GivenTask(call) ==
    [text |-> call.text, time |-> Parsed(call.time), endpoint |-> call.endpoint,
     method |-> IF call.method = NoArg THEN "POST" ELSE call.method,
     info |-> IF call.info = NoArg THEN None ELSE call.info,
     status |-> "scheduled"]

\* C18: a task's text, time, endpoint, method and info are the values given
\* to the schedule call that created it ("POST" and None when not given),
\* and no later call changes them.
C18_FieldsAsGiven ==
    [][/\ (CallStep("schedule") /\ last'.raises = NoException)
          => /\ last'.ret \in DOMAIN conversations'
             /\ conversations'[last'.ret] = GivenTask(last')
       /\ \A k \in DOMAIN conversations :
            /\ k \in DOMAIN conversations'
            /\ [conversations'[k] EXCEPT !.status = "-"]
                 = [conversations[k] EXCEPT !.status = "-"]]_vars

\* C18 witness: a task made with method and info given was cancelled, then
\* one made with the defaults
C18_Witness ==
    /\ DOMAIN conversations = {"1", "2"}
    /\ conversations["1"].method = "GET" /\ conversations["1"].info = "note"
    /\ conversations["1"].status = "cancelled"
    /\ conversations["2"].method = "POST" /\ conversations["2"].info = None
    /\ last.op = "schedule" /\ last.method = NoArg /\ last.ret = "2"

=============================================================================
